---- MODULE Spec2Model ----
(***************************************************************************)
(* Reservation availability and booking of the restaurant application:     *)
(* the time-of-day string helpers, the availability check, and the         *)
(* reservation handlers of the API server and of the owner dashboard; and  *)
(* its orders: the phone-order page, the menu, the order update endpoint,  *)
(* the kitchen page and the booking form of the customer page.             *)
(***************************************************************************)
EXTENDS Integers, Sequences, FiniteSets, TLC

VARIABLES
    calc,          \* last call of a time helper: its arguments and its result
    reservations,  \* rows of the reservations table
    pc,            \* per request process: position in POST /api/reservations
    req,           \* per request process: body of the request in flight
    sent,          \* per request process: what the notification senders did
    avail,         \* last GET /api/tables/available: query and result
    tables,        \* ids of the rows of the tables table
    orders,        \* rows of the orders table
    settings,      \* default duration and buffer rows of restaurant_settings
    best,          \* last checkAvailability of the customer page: inputs and choice
    menu,          \* rows of the menu_items table: id and price
    phoneOrders,   \* state of the phone-order page
    kitchenOrders, \* state of the kitchen page: loaded orders, fetches in flight
    customer       \* state of the customer booking page: form, checks in flight

\* the state of the order pages and of the booking form
clientVars == <<menu, phoneOrders, kitchenOrders, customer>>

vars == <<calc, reservations, pc, req, sent, avail, tables, orders, settings, best,
          menu, phoneOrders, kitchenOrders, customer>>

----------------------------------------------------------------------------
(* Bounds of the model *)

MaxDuration == 2
MaxRes == 2
NumProcs == 2
MaxOrders == 2

----------------------------------------------------------------------------
(* JavaScript strings: sequences of one-character strings, compared by code *)
(* unit as the < operator of the language does.                             *)

CharCode(c) ==
    CASE c = "-" -> 45
      [] c = "0" -> 48 [] c = "1" -> 49 [] c = "2" -> 50 [] c = "3" -> 51
      [] c = "4" -> 52 [] c = "5" -> 53 [] c = "6" -> 54 [] c = "7" -> 55
      [] c = "8" -> 56 [] c = "9" -> 57
      [] c = ":" -> 58

DigitChar(d) ==
    CASE d = 0 -> "0" [] d = 1 -> "1" [] d = 2 -> "2" [] d = 3 -> "3"
      [] d = 4 -> "4" [] d = 5 -> "5" [] d = 6 -> "6" [] d = 7 -> "7"
      [] d = 8 -> "8" [] d = 9 -> "9"

MinOf(a, b) == IF a < b THEN a ELSE b

\* a < b on strings: the first differing code unit decides, a proper prefix
\* is smaller
StrLess(a, b) ==
    \E i \in 1..(MinOf(Len(a), Len(b)) + 1) :
        /\ \A j \in 1..(i - 1) : a[j] = b[j]
        /\ \/ i > Len(a) /\ i <= Len(b)
           \/ i <= Len(a) /\ i <= Len(b) /\ CharCode(a[i]) < CharCode(b[i])

RECURSIVE NatToStr(_)
NatToStr(n) ==
    IF n < 10 THEN <<DigitChar(n)>>
    ELSE NatToStr(n \div 10) \o <<DigitChar(n % 10)>>

\* Number.prototype.toString() of an integer (-0 prints as "0")
NumToStr(n) == IF n < 0 THEN <<"-">> \o NatToStr(-n) ELSE NatToStr(n)

\* String.prototype.padStart(2, '0')
PadStart2(s) == IF Len(s) >= 2 THEN s ELSE <<"0">> \o s

RECURSIVE StrToNat(_)
StrToNat(s) ==
    IF Len(s) = 0 THEN 0
    ELSE StrToNat(SubSeq(s, 1, Len(s) - 1)) * 10 + (CharCode(s[Len(s)]) - 48)

\* Number(s) of an optionally signed decimal string
StrToNum(s) ==
    IF Len(s) > 0 /\ s[1] = "-" THEN 0 - StrToNat(Tail(s)) ELSE StrToNat(s)

\* String.prototype.split(':')
RECURSIVE SplitColon(_)
SplitColon(s) ==
    IF \A i \in 1..Len(s) : s[i] # ":" THEN <<s>>
    ELSE LET k == CHOOSE i \in 1..Len(s) :
                      s[i] = ":" /\ \A j \in 1..(i - 1) : s[j] # ":"
         IN  <<SubSeq(s, 1, k - 1)>> \o SplitColon(SubSeq(s, k + 1, Len(s)))

\* the % operator of JavaScript: the result takes the sign of the dividend
JsRem(a, b) == IF a >= 0 THEN a % b ELSE 0 - ((0 - a) % b)

\* Math.floor(a / b) for b > 0
FloorDiv(a, b) == IF a >= 0 THEN a \div b ELSE 0 - (((0 - a) + b - 1) \div b)

----------------------------------------------------------------------------
(* Time helpers of the server *)

RESERVATION_DURATION_HOURS == 2
BUFFER_MINUTES == 15

\* variant: windows that share an endpoint count as overlapping
hasTimeOverlapInclusive(startTime1, endTime1, startTime2, endTime2) ==
    ~StrLess(endTime2, startTime1) /\ ~StrLess(endTime1, startTime2)

hasTimeOverlap(startTime1, endTime1, startTime2, endTime2) ==
    StrLess(startTime1, endTime2) /\ StrLess(startTime2, endTime1)

\* variant: the hour is folded back into the day
addMinutesToTimeWrapping(timeStr, minutes) ==
    LET parts        == SplitColon(timeStr)
        hours        == StrToNum(parts[1])
        mins         == StrToNum(parts[2])
        totalMinutes == hours * 60 + mins + minutes
        newHours     == FloorDiv(totalMinutes, 60) % 24
        newMins      == JsRem(totalMinutes, 60)
    IN  PadStart2(NumToStr(newHours)) \o <<":">> \o PadStart2(NumToStr(newMins))

addMinutesToTime(timeStr, minutes) ==
    LET parts        == SplitColon(timeStr)
        hours        == StrToNum(parts[1])
        mins         == StrToNum(parts[2])
        totalMinutes == hours * 60 + mins + minutes
        newHours     == FloorDiv(totalMinutes, 60)
        newMins      == JsRem(totalMinutes, 60)
    IN  PadStart2(NumToStr(newHours)) \o <<":">> \o PadStart2(NumToStr(newMins))

\* variant: the buffer after the booking is left out
BusyWindowNoEndBuffer(time, duration, buffer) ==
    [start |-> addMinutesToTime(time, 0 - buffer),
     end   |-> addMinutesToTime(time, duration * 60)]

\* the busy window of a booking: the three addMinutesToTime calls of the handlers
BusyWindow(time, duration, buffer) ==
    LET bufferStart    == addMinutesToTime(time, 0 - buffer)
        reservationEnd == addMinutesToTime(time, duration * 60)
        bufferEnd      == addMinutesToTime(reservationEnd, buffer)
    IN  [start |-> bufferStart, end |-> bufferEnd]

----------------------------------------------------------------------------
(* Inputs of the time helpers *)

ClockHours == {0, 17, 20, 23}
ClockMins  == {0, 10, 15, 45}
Buffers    == {0, 15, 30}
Durations  == 1..MaxDuration

\* the HH:MM string of a time of day
Clock(h, m) ==
    <<DigitChar(h \div 10), DigitChar(h % 10), ":",
      DigitChar(m \div 10), DigitChar(m % 10)>>

ClockTimes == {Clock(h, m) : h \in ClockHours, m \in ClockMins}

\* the offsets the handlers pass to addMinutesToTime
Deltas == {0 - b : b \in Buffers} \cup Buffers \cup {d * 60 : d \in Durations}

\* the table inventory the store starts with
Tables == {"T1", "T2"}

\* every table id of the model; T3 is a second table for two
TableIds == {"T1", "T2", "T3"}

\* seats of a table: tables for two and a table for six
Seats(t) == IF t \in {"T1", "T3"} THEN 2 ELSE 6

NoCalc == [op |-> "none"]
NoAvail == [op |-> "none"]
NoReq == [table_id |-> ""]
NoBest == [op |-> "none"]
Procs == 1..NumProcs

\* ids of the menu items of the model
MenuIds == {"M1", "M2"}

\* prices a menu item can have, in cents
Prices == {850, 950}

\* the menu the store starts with
Menu == {[id |-> "M1", price |-> 850], [id |-> "M2", price |-> 950]}

\* the phone-order page before it has loaded anything
NoPhone ==
    [tables |-> {}, reservations |-> <<>>, menuItems |-> {}, selectedTable |-> "",
     currentReservation |-> [id |-> 0, table_id |-> ""], orderItems |-> <<>>,
     insert |-> [op |-> "none"]]

\* the kitchen page before it has loaded anything
NoKitchen == [orders |-> <<>>, fetches |-> <<>>, statusFilter |-> "all"]

\* the booking form as it opens; checked is the check that set table_id
NoCustomer ==
    [selectedTime |-> Clock(19, 0), guests |-> 0, table_id |-> "",
     checked |-> [op |-> "none"], checks |-> <<>>]

\* the rows the schema inserts into restaurant_settings; setting_value is text
DefaultSettings ==
    [default_reservation_duration |-> <<"2">>, default_buffer_minutes |-> <<"1", "5">>]

\* the order pages and the booking form before they are opened
ClientInit ==
    /\ menu = Menu
    /\ phoneOrders = NoPhone
    /\ kitchenOrders = NoKitchen
    /\ customer = NoCustomer

IdleInit ==
    /\ reservations = {}
    /\ pc = [p \in Procs |-> "idle"]
    /\ req = [p \in Procs |-> NoReq]
    /\ sent = [p \in Procs |-> [sms |-> "none", email |-> "none"]]
    /\ avail = NoAvail
    /\ tables = Tables
    /\ orders = {}
    /\ settings = DefaultSettings
    /\ best = NoBest
    /\ ClientInit

----------------------------------------------------------------------------
(* The time helpers applied to bounded inputs *)

\* each helper is applied once to the inputs drawn
AddMinutesCall ==
    /\ calc = NoCalc
    /\ \E t1 \in ClockTimes, m1 \in Deltas, t2 \in ClockTimes, m2 \in Deltas :
         calc' = [op |-> "addMinutes",
                  time |-> t1, minutes |-> m1, result |-> addMinutesToTime(t1, m1),
                  time2 |-> t2, minutes2 |-> m2, result2 |-> addMinutesToTime(t2, m2)]
    /\ UNCHANGED <<reservations, pc, req, sent, avail, tables, orders, settings, best, clientVars>>

BusyWindowCall ==
    /\ calc = NoCalc
    /\ \E t \in ClockTimes, d \in Durations, b \in Buffers :
         calc' = [op |-> "window", time |-> t, duration |-> d, buffer |-> b,
                  window |-> BusyWindow(t, d, b)]
    /\ UNCHANGED <<reservations, pc, req, sent, avail, tables, orders, settings, best, clientVars>>

OverlapCall ==
    /\ calc = NoCalc
    /\ \E t1 \in ClockTimes, d1 \in Durations, b1 \in Buffers,
          t2 \in ClockTimes, d2 \in Durations, b2 \in Buffers :
         LET w1 == BusyWindow(t1, d1, b1)
             w2 == BusyWindow(t2, d2, b2)
         IN  calc' = [op |-> "overlap",
                      time |-> t1, duration |-> d1, buffer |-> b1,
                      time2 |-> t2, duration2 |-> d2, buffer2 |-> b2,
                      result |-> hasTimeOverlap(w1.start, w1.end, w2.start, w2.end),
                      swapped |-> hasTimeOverlap(w2.start, w2.end, w1.start, w1.end)]
    /\ UNCHANGED <<reservations, pc, req, sent, avail, tables, orders, settings, best, clientVars>>

TimeInit == calc = NoCalc /\ IdleInit

TimeNext == AddMinutesCall \/ BusyWindowCall \/ OverlapCall

TimeSpec == TimeInit /\ [][TimeNext]_vars

----------------------------------------------------------------------------
(* The data store: tables and reservations (supabase-schema.sql) *)

Statuses == {"pending", "confirmed", "arrived", "in_progress", "completed", "cancelled"}

\* variant: a pending reservation is selected as well
OccupyingStatusesWithPending == {"pending", "confirmed", "arrived", "in_progress"}

\* the statuses the availability reads select
OccupyingStatuses == {"confirmed", "arrived", "in_progress"}

DEFAULT_DURATION_HOURS == 2
DEFAULT_BUFFER_MINUTES == 15

Dates == {"2025-06-01", "2025-06-02"}
ReqDate == "2025-06-01"

\* a TIME column returns its value as HH:MM:SS
DbTime(t) == IF Len(t) = 5 THEN t \o <<":", "0", "0">> ELSE t

\* the row the store makes of an insert that leaves status, duration_hours
\* and buffer_minutes to their column defaults unless given
NewRow(id, table_id, guests, date, time, duration, buffer, status) ==
    [id |-> id, table_id |-> table_id, guests |-> guests, date |-> date,
     time |-> DbTime(time), duration_hours |-> duration,
     buffer_minutes |-> buffer, status |-> status]

\* the CHECK, NOT NULL and REFERENCES constraints of the reservations table
RowAccepted(table_id, guests, date, time, status) ==
    /\ table_id \in tables
    /\ guests > 0
    /\ date \in Dates
    /\ Len(time) > 0
    /\ status \in Statuses

UsedIds == {r.id : r \in reservations}
\* the id of a new row: any unused one, here the smallest
FreshId == CHOOSE i \in 1..MaxRes : i \notin UsedIds /\ \A j \in 1..(i - 1) : j \in UsedIds

InFlight == {p \in Procs : pc[p] = "insert"}

----------------------------------------------------------------------------
(* The availability check of POST /api/reservations and GET /api/tables/available *)

\* a || b on numbers: 0 (like null) takes the fallback
JsOr(a, b) == IF a = 0 THEN b ELSE a

\* variant: the duration is added as minutes, not hours
ExistingWindowDurationInMinutes(r) ==
    LET duration == JsOr(r.duration_hours, RESERVATION_DURATION_HOURS)
        buffer   == JsOr(r.buffer_minutes, BUFFER_MINUTES)
    IN  [start |-> addMinutesToTime(r.time, 0 - buffer),
         end   |-> addMinutesToTime(addMinutesToTime(r.time, duration), buffer)]

\* the busy window the handlers compute for a stored reservation
ExistingWindow(r) ==
    BusyWindow(r.time,
               JsOr(r.duration_hours, RESERVATION_DURATION_HOURS),
               JsOr(r.buffer_minutes, BUFFER_MINUTES))

\* the busy window of the requested time: always the configured constants
RequestedWindow(time) == BusyWindow(time, RESERVATION_DURATION_HOURS, BUFFER_MINUTES)

\* .eq('table_id', ..).eq('date', ..).in('status', [...]) of the booking handler
ExistingReservations(table_id, date) ==
    {r \in reservations :
        r.table_id = table_id /\ r.date = date /\ r.status \in OccupyingStatuses}

\* variant: the availability handler reads the rows of every status
AllReservationsOfAnyStatus(date) == {r \in reservations : r.date = date}

\* .eq('date', ..).in('status', [...]) of the availability handler
AllReservations(date) ==
    {r \in reservations : r.date = date /\ r.status \in OccupyingStatuses}

\* the loop over the rows read: some row's window overlaps the requested one
HasConflict(rows, time) ==
    LET w == RequestedWindow(time)
    IN  \E r \in rows :
            LET e == ExistingWindow(r)
            IN  hasTimeOverlap(w.start, w.end, e.start, e.end)

\* variant: tables of the previous answer are left out of the next one
AvailableTablesWithoutLastAnswer(date, time) ==
    {t \in tables :
        ~HasConflict({r \in AllReservations(date) : r.table_id = t}, time)}
        \ (IF avail.op = "available" THEN avail.tables ELSE {})

\* allTables.filter(...) of the availability handler
AvailableTables(date, time) ==
    {t \in tables :
        ~HasConflict({r \in AllReservations(date) : r.table_id = t}, time)}

----------------------------------------------------------------------------
(* POST /api/reservations, in the two round trips to the store *)

\* !table_id || !customer_name || !guests || !date || !time
MissingFields(r) ==
    \/ r.table_id = ""
    \/ r.customer_name = ""
    \/ r.guests = 0
    \/ r.date = ""
    \/ Len(r.time) = 0

NoSent == [sms |-> "none", email |-> "none"]

\* variant: the senders run whether or not the request gives a contact
SendOutcomesRegardlessOfContact(contact) == {"skipped", "sent", "failed"}

\* sendSMS / sendEmail: skipped when the channel is not configured, and a
\* failure is caught inside the sender
SendOutcomes(contact) == IF contact = "" THEN {"none"} ELSE {"skipped", "sent", "failed"}

\* the request arrives, is validated, the availability read runs and the loop
\* decides; a request that passes waits for its insert
PostRead(p, r) ==
    /\ pc[p] # "insert"
    /\ sent' = [sent EXCEPT ![p] = NoSent]
    /\ req' = [req EXCEPT ![p] = r]
    /\ UNCHANGED <<calc, reservations, avail, tables, orders, settings, best, clientVars>>
    /\ IF MissingFields(r)
       THEN pc' = [pc EXCEPT ![p] = "missing"]
       ELSE LET conflict ==
                    HasConflict(ExistingReservations(r.table_id, r.date), r.time)
            IN  \/ pc' = [pc EXCEPT ![p] = "error"]
                \/ /\ conflict
                   /\ pc' = [pc EXCEPT ![p] = "conflict"]
                \/ /\ ~conflict
                   /\ Cardinality(reservations) + Cardinality(InFlight) < MaxRes
                   /\ pc' = [pc EXCEPT ![p] = "insert"]

\* variant: an insert reported as failed has stored the row all the same
PostInsertOrphanOnError(p) ==
    /\ pc[p] = "insert"
    /\ UNCHANGED <<calc, req, avail, tables, orders, settings, best, sent, clientVars>>
    /\ pc' = [pc EXCEPT ![p] = "error"]
    /\ LET r == req[p] IN
       reservations' = reservations \cup
           {NewRow(FreshId, r.table_id, r.guests, r.date, r.time,
                   RESERVATION_DURATION_HOURS, BUFFER_MINUTES, "confirmed")}

\* variant: a sender that fails makes the request fail and takes the row back
PostInsertRollbackOnSendFailure(p) ==
    /\ pc[p] = "insert"
    /\ UNCHANGED <<calc, req, avail, tables, orders, settings, best, clientVars>>
    /\ LET r == req[p] IN
       \E s \in SendOutcomes(r.customer_phone), e \in SendOutcomes(r.customer_email) :
          /\ sent' = [sent EXCEPT ![p] = [sms |-> s, email |-> e]]
          /\ IF s = "failed" \/ e = "failed"
             THEN /\ pc' = [pc EXCEPT ![p] = "error"]
                  /\ UNCHANGED reservations
             ELSE /\ pc' = [pc EXCEPT ![p] = "created"]
                  /\ reservations' = reservations \cup
                         {NewRow(FreshId, r.table_id, r.guests, r.date, r.time,
                                 RESERVATION_DURATION_HOURS, BUFFER_MINUTES, "confirmed")}

\* the insert runs; on success the notifications are sent and 201 is returned
PostInsert(p) ==
    /\ pc[p] = "insert"
    /\ UNCHANGED <<calc, req, avail, tables, orders, settings, best, clientVars>>
    /\ LET r == req[p] IN
       \/ /\ pc' = [pc EXCEPT ![p] = "error"]
          /\ UNCHANGED <<reservations, sent>>
       \/ /\ RowAccepted(r.table_id, r.guests, r.date, r.time, "confirmed")
          /\ reservations' = reservations \cup
                 {NewRow(FreshId, r.table_id, r.guests, r.date, r.time,
                         RESERVATION_DURATION_HOURS, BUFFER_MINUTES, "confirmed")}
          /\ \E s \in SendOutcomes(r.customer_phone), e \in SendOutcomes(r.customer_email) :
                 sent' = [sent EXCEPT ![p] = [sms |-> s, email |-> e]]
          /\ pc' = [pc EXCEPT ![p] = "created"]

----------------------------------------------------------------------------
(* PATCH and DELETE /api/reservations/:id, the dashboard's create form and *)
(* GET /api/tables/available                                               *)

\* variant: a completed or cancelled reservation keeps its status
PatchKeepsTerminalStatus(id, body) ==
    /\ UNCHANGED <<calc, pc, req, sent, avail, tables, orders, settings, best, clientVars>>
    /\ \/ UNCHANGED reservations
       \/ \E r \in reservations :
            /\ r.id = id
            /\ r.status \notin {"completed", "cancelled"}
            /\ "status" \in body.defined
            /\ reservations' = (reservations \ {r}) \cup {[r EXCEPT !.status = body.status]}

\* updateData holds the fields the body defines; the update of a missing row
\* or one the constraints reject changes nothing
Patch(id, body) ==
    /\ UNCHANGED <<calc, pc, req, sent, avail, tables, orders, settings, best, clientVars>>
    /\ \/ UNCHANGED reservations
       \/ \E r \in reservations :
            /\ r.id = id
            /\ LET status == IF "status" \in body.defined THEN body.status ELSE r.status
                   guests == IF "guests" \in body.defined THEN body.guests ELSE r.guests
                   date   == IF "date" \in body.defined THEN body.date ELSE r.date
                   time   == IF "time" \in body.defined THEN DbTime(body.time) ELSE r.time
               IN  /\ RowAccepted(r.table_id, guests, date, time, status)
                   /\ reservations' = (reservations \ {r}) \cup
                          {[r EXCEPT !.status = status, !.guests = guests,
                                     !.date = date, !.time = time]}

\* variant: the orders of a deleted reservation stay behind
DeleteWithoutCascade(id) ==
    /\ UNCHANGED <<calc, pc, req, sent, avail, tables, settings, best, orders, clientVars>>
    /\ reservations' = {r \in reservations : r.id # id}

\* the row is deleted, and with it the orders that reference it (ON DELETE
\* CASCADE of orders.reservation_id)
Delete(id) ==
    /\ UNCHANGED <<calc, pc, req, sent, avail, tables, settings, best, clientVars>>
    /\ reservations' = {r \in reservations : r.id # id}
    /\ orders' = {o \in orders : o.reservation_id # id}

\* handleCreateReservation of the owner dashboard: the form is inserted as it
\* is, the columns it leaves out take their defaults
DashCreate(r) ==
    /\ UNCHANGED <<calc, pc, req, sent, avail, tables, orders, settings, best, clientVars>>
    /\ Cardinality(reservations) + Cardinality(InFlight) < MaxRes
    /\ \/ UNCHANGED reservations
       \/ /\ RowAccepted(r.table_id, r.guests, r.date, r.time, "confirmed")
          /\ reservations' = reservations \cup
                 {NewRow(FreshId, r.table_id, r.guests, r.date, r.time,
                         DEFAULT_DURATION_HOURS, DEFAULT_BUFFER_MINUTES, "confirmed")}

\* deleteTable of the table management page: the table row is deleted, and
\* with it its reservations and their orders (ON DELETE CASCADE of
\* reservations.table_id and of orders.reservation_id)
DeleteTable(t) ==
    /\ UNCHANGED <<calc, pc, req, sent, avail, settings, best, clientVars>>
    /\ tables' = tables \ {t}
    /\ reservations' = {r \in reservations : r.table_id # t}
    /\ orders' = {o \in orders :
                     \E r \in reservations : r.id = o.reservation_id /\ r.table_id # t}

UsedOrderIds == {o.id : o \in orders}
FreshOrderId ==
    CHOOSE i \in 1..MaxOrders :
        i \notin UsedOrderIds /\ \A j \in 1..(i - 1) : j \in UsedOrderIds

\* an insert into orders: the store rejects a reservation_id that no
\* reservation has (REFERENCES reservations(id))
InsertOrder(reservation_id) ==
    /\ UNCHANGED <<calc, reservations, pc, req, sent, avail, tables, settings, best, clientVars>>
    /\ Cardinality(orders) < MaxOrders
    /\ \/ UNCHANGED orders
       \/ /\ reservation_id \in UsedIds
          /\ orders' = orders \cup
                 {[id |-> FreshOrderId, reservation_id |-> reservation_id]}

\* DELETE /api/orders/:id
DeleteOrder(id) ==
    /\ UNCHANGED <<calc, reservations, pc, req, sent, avail, tables, settings, best, clientVars>>
    /\ orders' = {o \in orders : o.id # id}

\* saveSettings of the settings page: the values are written as text, one
\* update after the other, and an error stops the loop
SaveSettings(defaultDuration, defaultBuffer) ==
    /\ UNCHANGED <<calc, reservations, pc, req, sent, avail, tables, orders, best, clientVars>>
    /\ \/ UNCHANGED settings
       \/ settings' = [settings EXCEPT
               !.default_reservation_duration = NumToStr(defaultDuration)]
       \/ settings' = [default_reservation_duration |-> NumToStr(defaultDuration),
                       default_buffer_minutes |-> NumToStr(defaultBuffer)]

GetAvailable(date, time) ==
    /\ UNCHANGED <<calc, reservations, pc, req, sent, tables, orders, settings, best, clientVars>>
    /\ IF date = "" \/ Len(time) = 0
       THEN avail' = [op |-> "missing", date |-> date, time |-> time]
       ELSE
       \/ avail' = [op |-> "error", date |-> date, time |-> time]
       \/ avail' = [op |-> "available", date |-> date, time |-> time,
                    tables |-> AvailableTables(date, time)]

----------------------------------------------------------------------------
(* checkAvailability of the customer reservation page; its time helpers are *)
(* copies of the server's                                                   *)

\* the rows of a select without an order clause: the tables in any order
StoreOrders(S) ==
    {f \in [1..Cardinality(S) -> S] :
        \A i \in DOMAIN f, j \in DOMAIN f : i # j => f[i] # f[j]}

\* Array.prototype.filter on a list of table ids
RECURSIVE FilterTables(_, _)
FilterTables(list, keep) ==
    IF Len(list) = 0 THEN <<>>
    ELSE (IF Head(list) \in keep THEN <<Head(list)>> ELSE <<>>)
             \o FilterTables(Tail(list), keep)

\* list.sort((a, b) => a.seats - b.seats): ascending by seats, and stable, so
\* tables with equal seats keep the order they had
RECURSIVE SortBySeats(_)
SortBySeats(list) ==
    IF Len(list) = 0 THEN <<>>
    ELSE LET k == CHOOSE i \in 1..Len(list) :
                      /\ \A j \in 1..Len(list) : Seats(list[i]) <= Seats(list[j])
                      /\ \A j \in 1..(i - 1) : Seats(list[j]) > Seats(list[i])
         IN  <<list[k]>> \o
             SortBySeats(SubSeq(list, 1, k - 1) \o SubSeq(list, k + 1, Len(list)))

\* the table the page assigns: the first of the suitable tables sorted by
\* seats, '' when there is none
BestTable(allTables, date, time, guests) ==
    LET availableTables == FilterTables(allTables, AvailableTables(date, time))
        suitableTables  == FilterTables(availableTables,
                                        {t \in TableIds : Seats(t) >= guests})
        sorted          == SortBySeats(suitableTables)
    IN  IF Len(sorted) > 0 THEN sorted[1] ELSE ""

\* allTables is what the store returned; a store error leaves the form as it was
CheckAvailability(allTables, date, time, guests) ==
    /\ UNCHANGED <<calc, reservations, pc, req, sent, avail, tables, orders, settings, clientVars>>
    /\ \/ best' = [op |-> "error", date |-> date, time |-> time, guests |-> guests,
                   allTables |-> allTables, availableTables |-> {}, table_id |-> ""]
       \/ best' = [op |-> "checked", date |-> date, time |-> time, guests |-> guests,
                   allTables |-> allTables,
                   availableTables |-> AvailableTables(date, time),
                   table_id |-> BestTable(allTables, date, time, guests)]

----------------------------------------------------------------------------
(* Inputs of the handlers *)

T1900 == Clock(19, 0)
T2100 == Clock(21, 0)
T2115 == Clock(21, 15)
T2130 == Clock(21, 30)
NoTime == <<>>

Request(table_id, guests, time, phone, email) ==
    [table_id |-> table_id, customer_name |-> "Guest", guests |-> guests,
     date |-> ReqDate, time |-> time,
     customer_phone |-> phone, customer_email |-> email]

\* requests with a field missing, with no guests and with a negative party size
InvalidRequests ==
    {Request("", 2, T1900, "", ""),
     Request("T1", 0, T1900, "", ""),
     Request("T1", 0 - 1, T1900, "", ""),
     Request("T1", 2, NoTime, "", ""),
     [Request("T1", 2, T1900, "", "") EXCEPT !.customer_name = ""],
     [Request("T1", 2, T1900, "", "") EXCEPT !.date = ""]}

PatchedFields ==
    {{"status"}, {"time"}, {"guests"}, {"date"}, {"status", "time"}}

\* bodies of PATCH: every field is optional; a field the body leaves out
\* carries a filler that is never read
PatchBodies ==
    {[defined |-> d,
      status |-> IF "status" \in d THEN st ELSE "",
      guests |-> IF "guests" \in d THEN 2 ELSE 0,
      date   |-> IF "date" \in d THEN ReqDate ELSE "",
      time   |-> IF "time" \in d THEN t ELSE NoTime] :
        d \in PatchedFields, st \in Statuses, t \in {T1900, T2100}}

\* the body of a status update: { status }
StatusBody(st) ==
    [defined |-> {"status"}, status |-> st, guests |-> 0, date |-> "", time |-> NoTime]

----------------------------------------------------------------------------
(* Spec: one client of the booking endpoint, staff editing and deleting     *)
(* reservations and creating them from the dashboard; the store starts      *)
(* empty.                                                                   *)

MainRequests ==
    {Request("T1", 2, T1900, "+31600000000", ""),
     Request("T1", 2, T2100, "", "guest@example.com"),
     Request("T2", 2, T1900, "", "")} \cup InvalidRequests

DashRequests ==
    {Request(t, 2, time, "", "") : t \in Tables, time \in {T1900, T2100}}

Init == calc = NoCalc /\ IdleInit

Next ==
    \/ \E r \in MainRequests : PostRead(1, r)
    \/ PostInsert(1)
    \/ \E id \in 1..MaxRes, body \in PatchBodies : Patch(id, body)
    \/ \E id \in 1..MaxRes : Delete(id)
    \/ \E r \in DashRequests : DashCreate(r)

Spec == Init /\ [][Next]_vars

----------------------------------------------------------------------------
(* AvailSpec: the availability check and a booking run alone against a      *)
(* store that already holds at most one reservation, any row the schema     *)
(* admits.                                                                  *)

SeedRows ==
    {NewRow(1, t, 2, d, time, dur, buf, st) :
        t \in Tables, d \in Dates, time \in {T1900, T2115},
        dur \in Durations, buf \in Buffers, st \in Statuses}

AvailRequests ==
    {Request("T1", 2, T1900, "+31600000000", ""),
     Request("T1", 2, T2100, "+31600000000", ""),
     Request("T1", 2, T2115, "", "guest@example.com"),
     Request("T1", 2, T2130, "", ""),
     Request("T1", 8, T2115, "", ""),
     Request("T2", 2, T1900, "", "")} \cup InvalidRequests

QueryTimes == {T1900, T2100, T2115, T2130}

AvailInit ==
    /\ calc = NoCalc
    /\ pc = [p \in Procs |-> "idle"]
    /\ req = [p \in Procs |-> NoReq]
    /\ sent = [p \in Procs |-> NoSent]
    /\ avail = NoAvail
    /\ tables = Tables
    /\ orders = {}
    /\ settings = DefaultSettings
    /\ best = NoBest
    /\ ClientInit
    /\ \/ reservations = {}
       \/ \E seed \in SeedRows : reservations = {seed}

\* a behaviour is one booking request, and ends with one availability query
AvailNext ==
    \/ avail = NoAvail /\ pc[1] = "idle" /\ \E r \in AvailRequests : PostRead(1, r)
    \/ avail = NoAvail /\ PostInsert(1)
    \/ /\ avail = NoAvail
       /\ pc[1] # "insert"
       /\ \/ \E t \in QueryTimes : GetAvailable(ReqDate, t)
          \/ GetAvailable(ReqDate, NoTime)

AvailSpec == AvailInit /\ [][AvailNext]_vars

----------------------------------------------------------------------------
(* ConcSpec: several clients post bookings for the same table and date; the *)
(* reads and the inserts interleave in any order.                           *)

ConcRequests == {Request("T1", 2, time, "", "") : time \in {T1900, T2100, T2115}}

ConcNext ==
    \/ \E p \in Procs, r \in ConcRequests : PostRead(p, r)
    \/ \E p \in Procs : PostInsert(p)

ConcSpec == Init /\ [][ConcNext]_vars

----------------------------------------------------------------------------
(* BestSpec: the customer page checks availability once, against a table    *)
(* inventory of two or three tables and a store that holds at most one      *)
(* reservation.                                                             *)

Inventories == {Tables, TableIds}
PartySizes == {2, 4, 8}

BestInit ==
    /\ calc = NoCalc
    /\ pc = [p \in Procs |-> "idle"]
    /\ req = [p \in Procs |-> NoReq]
    /\ sent = [p \in Procs |-> NoSent]
    /\ avail = NoAvail
    /\ tables \in Inventories
    /\ orders = {}
    /\ settings = DefaultSettings
    /\ best = NoBest
    /\ ClientInit
    /\ \/ reservations = {}
       \/ \E seed \in SeedRows : reservations = {seed}

BestNext ==
    /\ best = NoBest
    /\ \E allTables \in StoreOrders(tables), time \in QueryTimes, guests \in PartySizes :
           CheckAvailability(allTables, ReqDate, time, guests)

BestSpec == BestInit /\ [][BestNext]_vars

----------------------------------------------------------------------------
(* RetrySpec: one client posts booking after booking, whatever the answer   *)
(* to the last one was, while staff delete reservations.                    *)

RetryNext ==
    \/ \E r \in MainRequests : PostRead(1, r)
    \/ PostInsert(1)
    \/ \E id \in 1..MaxRes : Delete(id)

RetrySpec == Init /\ [][RetryNext]_vars

----------------------------------------------------------------------------
(* StatusSpec: staff create reservations from the dashboard and set their   *)
(* status.                                                                  *)

StatusNext ==
    \/ \E r \in DashRequests : DashCreate(r)
    \/ \E id \in 1..MaxRes, st \in Statuses : Patch(id, StatusBody(st))

StatusSpec == Init /\ [][StatusNext]_vars

----------------------------------------------------------------------------
(* QuerySpec: availability queries, one after the other, against a store    *)
(* that holds at most one reservation.                                      *)

QueryNext ==
    \/ \E t \in QueryTimes : GetAvailable(ReqDate, t)
    \/ GetAvailable(ReqDate, NoTime)

QuerySpec == AvailInit /\ [][QueryNext]_vars

----------------------------------------------------------------------------
(* SettingsSpec: staff save the default duration and buffer while a client  *)
(* books.                                                                   *)

SettingDurations == {1, 2, 3}

SettingsNext ==
    \/ \E d \in SettingDurations, b \in Buffers : SaveSettings(d, b)
    \/ \E r \in ConcRequests : PostRead(1, r)
    \/ PostInsert(1)

SettingsSpec == Init /\ [][SettingsNext]_vars

----------------------------------------------------------------------------
(* StoreSpec: staff create and delete reservations, take and delete orders  *)
(* and delete tables.                                                       *)

StoreNext ==
    \/ \E r \in DashRequests : DashCreate(r)
    \/ \E id \in 1..MaxRes : Delete(id)
    \/ \E t \in Tables : DeleteTable(t)
    \/ \E id \in 1..MaxRes : InsertOrder(id)
    \/ \E id \in 1..MaxOrders : DeleteOrder(id)

StoreSpec == Init /\ [][StoreNext]_vars

----------------------------------------------------------------------------
(* The phone-order page and the menu management page *)

\* the statuses of the Order interface of the order pages
OrderStatuses == {"pending", "confirmed", "preparing", "ready", "served", "cancelled"}

\* no reservation selected (currentReservation is null)
NoReservation == [id |-> 0, table_id |-> ""]

\* the largest quantity of a line the model follows
MaxQuantity == 2

\* the latest creation time of an order the model follows
MaxCreated == 3

\* the notes the staff types on a line
Notes == {"", "no salt"}

\* the day the phone-order page is open on
Today == ReqDate

\* no insert of an order in flight
NoInsert == [op |-> "none"]

\* fetchData of the phone-order page: tables, today's reservations and the
\* menu are loaded one after the other, and an error keeps what was not yet
\* loaded
PhoneFetched(page) ==
    LET today == {r \in reservations :
                      r.date = Today /\ r.status \in {"confirmed", "seated"}}
        loaded == {[page EXCEPT !.tables = tables, !.reservations = l]
                      : l \in StoreOrders(today)}
    IN  {page, [page EXCEPT !.tables = tables]}
        \cup loaded
        \cup {[p EXCEPT !.menuItems = menu] : p \in loaded}

\* the page is opened: the state is the initial one and fetchData runs
PhoneOpen ==
    /\ UNCHANGED <<calc, reservations, pc, req, sent, avail, tables, orders,
                   settings, best, menu, kitchenOrders, customer>>
    /\ phoneOrders.insert = NoInsert
    /\ phoneOrders' \in PhoneFetched(NoPhone)

\* reservations.find(r => r.table_id === tableId) || null
RECURSIVE getReservationForTable(_, _)
getReservationForTable(list, tableId) ==
    IF Len(list) = 0 THEN NoReservation
    ELSE IF Head(list).table_id = tableId
         THEN [id |-> Head(list).id, table_id |-> Head(list).table_id]
         ELSE getReservationForTable(Tail(list), tableId)

handleTableSelect(table) ==
    /\ UNCHANGED <<calc, reservations, pc, req, sent, avail, tables, orders,
                   settings, best, menu, kitchenOrders, customer>>
    /\ table \in phoneOrders.tables
    /\ phoneOrders.selectedTable = ""
    /\ phoneOrders' = [phoneOrders EXCEPT
           !.selectedTable = table,
           !.currentReservation =
               getReservationForTable(phoneOrders.reservations, table),
           !.orderItems = <<>>]

\* the index of the line of a menu item in the draft, 0 if it has none
LineOf(orderItems, menuItemId) ==
    IF \E i \in DOMAIN orderItems : orderItems[i].menu_item.id = menuItemId
    THEN CHOOSE i \in DOMAIN orderItems :
             /\ orderItems[i].menu_item.id = menuItemId
             /\ \A j \in 1..(i - 1) : orderItems[j].menu_item.id # menuItemId
    ELSE 0

\* variant: a line is appended even when the item has one
AddMenuItemAlwaysAppends(orderItems, menuItem) ==
    Append(orderItems, [menu_item |-> menuItem, quantity |-> 1, notes |-> ""])

\* the draft after handleAddMenuItem: a line of the item gets one more,
\* otherwise a line with quantity 1 is appended
AddMenuItem(orderItems, menuItem) ==
    IF LineOf(orderItems, menuItem.id) # 0
    THEN [i \in DOMAIN orderItems |->
             IF orderItems[i].menu_item.id = menuItem.id
             THEN [orderItems[i] EXCEPT !.quantity = @ + 1]
             ELSE orderItems[i]]
    ELSE Append(orderItems, [menu_item |-> menuItem, quantity |-> 1, notes |-> ""])

handleAddMenuItem(menuItem) ==
    /\ UNCHANGED <<calc, reservations, pc, req, sent, avail, tables, orders,
                   settings, best, menu, kitchenOrders, customer>>
    /\ phoneOrders.selectedTable # ""
    /\ menuItem \in phoneOrders.menuItems
    /\ \A i \in DOMAIN phoneOrders.orderItems :
           phoneOrders.orderItems[i].menu_item.id = menuItem.id =>
               phoneOrders.orderItems[i].quantity < MaxQuantity
    /\ phoneOrders' = [phoneOrders EXCEPT
           !.orderItems = AddMenuItem(phoneOrders.orderItems, menuItem)]

\* Array.prototype.filter on the draft: the lines of the other menu items
RECURSIVE WithoutItem(_, _)
WithoutItem(orderItems, menuItemId) ==
    IF Len(orderItems) = 0 THEN <<>>
    ELSE (IF Head(orderItems).menu_item.id # menuItemId
          THEN <<Head(orderItems)>> ELSE <<>>)
             \o WithoutItem(Tail(orderItems), menuItemId)

\* the draft after handleQuantityChange: a quantity of zero or less removes
\* the line
QuantityChange(orderItems, menuItemId, quantity) ==
    IF quantity <= 0
    THEN WithoutItem(orderItems, menuItemId)
    ELSE [i \in DOMAIN orderItems |->
             IF orderItems[i].menu_item.id = menuItemId
             THEN [orderItems[i] EXCEPT !.quantity = quantity]
             ELSE orderItems[i]]

handleQuantityChange(menuItemId, quantity) ==
    /\ UNCHANGED <<calc, reservations, pc, req, sent, avail, tables, orders,
                   settings, best, menu, kitchenOrders, customer>>
    /\ phoneOrders.selectedTable # ""
    /\ quantity <= MaxQuantity
    /\ phoneOrders' = [phoneOrders EXCEPT
           !.orderItems = QuantityChange(phoneOrders.orderItems, menuItemId, quantity)]

\* the minus and plus buttons of a line of the draft
QuantityButtons ==
    \E i \in DOMAIN phoneOrders.orderItems, step \in {0 - 1, 1} :
        handleQuantityChange(phoneOrders.orderItems[i].menu_item.id,
                             phoneOrders.orderItems[i].quantity + step)

handleNotesChange(menuItemId, notes) ==
    /\ UNCHANGED <<calc, reservations, pc, req, sent, avail, tables, orders,
                   settings, best, menu, kitchenOrders, customer>>
    /\ phoneOrders.selectedTable # ""
    /\ LineOf(phoneOrders.orderItems, menuItemId) # 0
    /\ phoneOrders' = [phoneOrders EXCEPT
           !.orderItems = [i \in DOMAIN phoneOrders.orderItems |->
               IF phoneOrders.orderItems[i].menu_item.id = menuItemId
               THEN [phoneOrders.orderItems[i] EXCEPT !.notes = notes]
               ELSE phoneOrders.orderItems[i]]]

handleBackToTables ==
    /\ UNCHANGED <<calc, reservations, pc, req, sent, avail, tables, orders,
                   settings, best, menu, kitchenOrders, customer>>
    /\ phoneOrders.selectedTable # ""
    /\ phoneOrders' = [phoneOrders EXCEPT
           !.selectedTable = "", !.currentReservation = NoReservation,
           !.orderItems = <<>>]

\* orderItems.reduce((total, item) => total + item.menu_item.price * item.quantity, 0)
RECURSIVE calculateTotal(_)
calculateTotal(orderItems) ==
    IF Len(orderItems) = 0 THEN 0
    ELSE Head(orderItems).menu_item.price * Head(orderItems).quantity
             + calculateTotal(Tail(orderItems))

\* the items of the order handleConfirmOrder writes
OrderItemsOf(orderItems) ==
    [i \in DOMAIN orderItems |->
        [menu_item_id |-> orderItems[i].menu_item.id,
         quantity |-> orderItems[i].quantity,
         notes |-> orderItems[i].notes,
         price |-> orderItems[i].menu_item.price]]

\* created_at of a new order: later than that of every stored order
NowCreated ==
    IF orders = {} THEN 1
    ELSE 1 + (CHOOSE c \in {o.created_at : o \in orders} :
                  \A o \in orders : o.created_at <= c)

\* handleConfirmOrder up to the insert: nothing without a table, a
\* reservation and a line; the button is disabled while the page is loading
handleConfirmOrder ==
    /\ UNCHANGED <<calc, reservations, pc, req, sent, avail, tables, orders,
                   settings, best, menu, kitchenOrders, customer>>
    /\ phoneOrders.insert = NoInsert
    /\ phoneOrders.selectedTable # ""
    /\ phoneOrders.currentReservation # NoReservation
    /\ Len(phoneOrders.orderItems) > 0
    /\ phoneOrders' = [phoneOrders EXCEPT !.insert =
           [op |-> "insert",
            reservation_id |-> phoneOrders.currentReservation.id,
            table_id |-> phoneOrders.selectedTable,
            status |-> "pending",
            total_amount |-> calculateTotal(phoneOrders.orderItems),
            items |-> OrderItemsOf(phoneOrders.orderItems)]]

\* the row the store makes of the insert in flight
InsertedOrder ==
    [id |-> FreshOrderId,
     reservation_id |-> phoneOrders.insert.reservation_id,
     table_id |-> phoneOrders.insert.table_id,
     status |-> phoneOrders.insert.status,
     total_amount |-> phoneOrders.insert.total_amount,
     items |-> phoneOrders.insert.items,
     created_at |-> NowCreated]

\* variant: the draft survives a successful insert
ConfirmOrderDoneKeepsDraft ==
    /\ UNCHANGED <<calc, reservations, pc, req, sent, avail, tables,
                   settings, best, menu, kitchenOrders, customer>>
    /\ phoneOrders.insert # NoInsert
    /\ Cardinality(orders) < MaxOrders
    /\ NowCreated <= MaxCreated
    /\ phoneOrders.insert.reservation_id \in UsedIds
    /\ orders' = orders \cup {InsertedOrder}
    /\ phoneOrders' = [phoneOrders EXCEPT !.insert = NoInsert]

\* handleConfirmOrder from the answer of the insert: an error is shown and
\* keeps the draft; the store rejects a reservation_id that no reservation
\* has; after the insert the draft is emptied and fetchData runs
ConfirmOrderDone ==
    /\ UNCHANGED <<calc, reservations, pc, req, sent, avail, tables,
                   settings, best, menu, kitchenOrders, customer>>
    /\ phoneOrders.insert # NoInsert
    /\ Cardinality(orders) < MaxOrders
    /\ NowCreated <= MaxCreated
    /\ \/ /\ UNCHANGED orders
          /\ phoneOrders' = [phoneOrders EXCEPT !.insert = NoInsert]
       \/ /\ phoneOrders.insert.reservation_id \in UsedIds
          /\ orders' = orders \cup {InsertedOrder}
          /\ phoneOrders' \in
                 PhoneFetched([phoneOrders EXCEPT !.orderItems = <<>>,
                                                 !.insert = NoInsert])

\* handleSubmit of the menu management page on an existing item: the row is
\* updated; the store rejects a price that is not positive
MenuSubmit(id, price) ==
    /\ UNCHANGED <<calc, reservations, pc, req, sent, avail, tables, orders,
                   settings, best, phoneOrders, kitchenOrders, customer>>
    /\ \/ UNCHANGED menu
       \/ /\ price > 0
          /\ menu' = {IF m.id = id THEN [m EXCEPT !.price = price] ELSE m : m \in menu}

\* handleDelete of the menu management page
MenuDelete(id) ==
    /\ UNCHANGED <<calc, reservations, pc, req, sent, avail, tables, orders,
                   settings, best, phoneOrders, kitchenOrders, customer>>
    /\ menu' = {m \in menu : m.id # id}

\* the phone-order page alone: the draft handlers, while the menu changes
DraftNext ==
    \/ PhoneOpen
    \/ \E t \in Tables : handleTableSelect(t)
    \/ \E m \in phoneOrders.menuItems : handleAddMenuItem(m)
    \/ QuantityButtons
    \/ \E m \in MenuIds, n \in Notes : handleNotesChange(m, n)
    \/ handleBackToTables
    \/ \E m \in MenuIds, price \in Prices : MenuSubmit(m, price)

DraftSpec == Init /\ [][DraftNext]_vars

\* the reservations of the day of the phone orders: one of each table
PhoneRows ==
    {NewRow(1, "T1", 2, Today, T1900, DEFAULT_DURATION_HOURS,
            DEFAULT_BUFFER_MINUTES, "confirmed"),
     NewRow(2, "T2", 2, Today, T2100, DEFAULT_DURATION_HOURS,
            DEFAULT_BUFFER_MINUTES, "confirmed")}

PhoneInit ==
    /\ calc = NoCalc
    /\ pc = [p \in Procs |-> "idle"]
    /\ req = [p \in Procs |-> NoReq]
    /\ sent = [p \in Procs |-> NoSent]
    /\ avail = NoAvail
    /\ tables = Tables
    /\ orders = {}
    /\ settings = DefaultSettings
    /\ best = NoBest
    /\ ClientInit
    /\ reservations \in SUBSET PhoneRows

\* the phone-order page next to the dashboard, which deletes reservations;
\* the orders are orders of the first menu item
PhoneNext ==
    \/ PhoneOpen
    \/ \E t \in Tables : handleTableSelect(t)
    \/ \E m \in phoneOrders.menuItems : m.id = "M1" /\ handleAddMenuItem(m)
    \/ handleBackToTables
    \/ handleConfirmOrder
    \/ ConfirmOrderDone
    \/ \E r \in reservations : Delete(r.id)

PhoneSpec == PhoneInit /\ [][PhoneNext]_vars

\* the phone-order page next to the menu management page
MenuNext ==
    \/ PhoneOpen
    \/ \E t \in Tables : handleTableSelect(t)
    \/ \E m \in phoneOrders.menuItems : m.id = "M1" /\ handleAddMenuItem(m)
    \/ handleBackToTables
    \/ handleConfirmOrder
    \/ ConfirmOrderDone
    \/ \E m \in MenuIds, price \in Prices : MenuSubmit(m, price)
    \/ \E m \in MenuIds : MenuDelete(m)

MenuSpec == PhoneInit /\ [][MenuNext]_vars

----------------------------------------------------------------------------
(* The order update endpoint and the kitchen page *)

\* the rows a select of orders ordered by created_at can return
OrdersByCreated ==
    {l \in StoreOrders(orders) :
        \A i \in DOMAIN l, j \in DOMAIN l :
            i < j => l[i].created_at <= l[j].created_at}

\* the fetches of the kitchen page the model follows at one time
MaxFetches == 2

\* fetchData of the kitchen page up to the select of the orders: the initial
\* load, the auto-refresh every five seconds, the realtime event of a change
\* of orders and the reload after a status update all start one
fetchData ==
    /\ UNCHANGED <<calc, reservations, pc, req, sent, avail, tables, orders,
                   settings, best, menu, phoneOrders, customer>>
    /\ Len(kitchenOrders.fetches) < MaxFetches
    /\ \E l \in OrdersByCreated :
           kitchenOrders' = [kitchenOrders EXCEPT !.fetches = Append(@, l)]

\* a list without its i-th element
RemoveAt(list, i) ==
    [k \in 1..(Len(list) - 1) |-> IF k < i THEN list[k] ELSE list[k + 1]]

\* variant: the answer of the select is dropped
FetchDoneWithoutSetOrders(i) ==
    /\ UNCHANGED <<calc, reservations, pc, req, sent, avail, tables, orders,
                   settings, best, menu, phoneOrders, customer>>
    /\ i \in DOMAIN kitchenOrders.fetches
    /\ kitchenOrders' = [kitchenOrders EXCEPT !.fetches = RemoveAt(@, i)]

\* fetchData from the answer of the select: setOrders(ordersData); the
\* answers of overlapping fetches arrive in any order
FetchDone(i) ==
    /\ UNCHANGED <<calc, reservations, pc, req, sent, avail, tables, orders,
                   settings, best, menu, phoneOrders, customer>>
    /\ i \in DOMAIN kitchenOrders.fetches
    /\ kitchenOrders' = [kitchenOrders EXCEPT
           !.orders = kitchenOrders.fetches[i],
           !.fetches = RemoveAt(@, i)]

\* fetchData from an error of the select: the error is shown and the loaded
\* orders stay
FetchFailed(i) ==
    /\ UNCHANGED <<calc, reservations, pc, req, sent, avail, tables, orders,
                   settings, best, menu, phoneOrders, customer>>
    /\ i \in DOMAIN kitchenOrders.fetches
    /\ kitchenOrders' = [kitchenOrders EXCEPT !.fetches = RemoveAt(@, i)]

\* the filter buttons of the kitchen page
StatusFilters == {"all", "pending", "confirmed", "preparing", "ready"}

setStatusFilter(statusFilter) ==
    /\ UNCHANGED <<calc, reservations, pc, req, sent, avail, tables, orders,
                   settings, best, menu, phoneOrders, customer>>
    /\ statusFilter # kitchenOrders.statusFilter
    /\ kitchenOrders' = [kitchenOrders EXCEPT !.statusFilter = statusFilter]

RECURSIVE getFilteredOrders(_, _)
getFilteredOrders(list, statusFilter) ==
    IF Len(list) = 0 THEN <<>>
    ELSE (IF \/ statusFilter = "all" /\ Head(list).status \notin {"served", "cancelled"}
             \/ statusFilter # "all" /\ Head(list).status = statusFilter
          THEN <<Head(list)>> ELSE <<>>)
             \o getFilteredOrders(Tail(list), statusFilter)

\* Array.prototype.sort with a comparator that compares cmp[a] and cmp[b]: a
\* stable sort, so o goes behind the elements that do not compare greater
RECURSIVE InsertByKey(_, _, _)
InsertByKey(sorted, o, cmp) ==
    IF Len(sorted) = 0 THEN <<o>>
    ELSE IF cmp[o] < cmp[Head(sorted)] THEN <<o>> \o sorted
         ELSE <<Head(sorted)>> \o InsertByKey(Tail(sorted), o, cmp)

RECURSIVE SortByKey(_, _, _)
SortByKey(sorted, list, cmp) ==
    IF Len(list) = 0 THEN sorted
    ELSE SortByKey(InsertByKey(sorted, Head(list), cmp), Tail(list), cmp)

\* the elements of a list
Range(list) == {list[i] : i \in DOMAIN list}

\* a number larger than every creation time and every priority
StatusWeight == 1000

\* sortedOrders of the kitchen page with auto-refresh: preparing orders
\* first, then by created_at, the oldest first
sortedOrders(list) ==
    SortByKey(<<>>, list,
        [o \in Range(list) |->
            (IF o.status = "preparing" THEN 0 ELSE StatusWeight) + o.created_at])

\* prep_time_minutes of a menu item (the column default)
PREP_TIME_MINUTES == 15

RECURSIVE getEstimatedPrepTime(_)
getEstimatedPrepTime(items) ==
    IF Len(items) = 0 THEN 0
    ELSE PREP_TIME_MINUTES * Head(items).quantity + getEstimatedPrepTime(Tail(items))

\* getOrderPriority: the minutes the order has waited plus its preparation time
getOrderPriority(order, now) == (now - order.created_at) + getEstimatedPrepTime(order.items)

\* sortedOrders of the kitchen page without auto-refresh: preparing orders
\* first, then by getOrderPriority, the smallest first
sortedOrdersByPriority(list, now) ==
    SortByKey(<<>>, list,
        [o \in Range(list) |->
            (IF o.status = "preparing" THEN 0 ELSE StatusWeight)
                + getOrderPriority(o, now)])

\* the queue the kitchen page with auto-refresh shows
Queue ==
    sortedOrders(getFilteredOrders(kitchenOrders.orders, kitchenOrders.statusFilter))

\* the queue the kitchen page without auto-refresh shows, one minute after
\* the newest order it follows
QueueByPriority ==
    sortedOrdersByPriority(
        getFilteredOrders(kitchenOrders.orders, kitchenOrders.statusFilter),
        MaxCreated + 1)

\* the update of a status in the store: the row with the id gets the status,
\* whatever status it has
UpdateStatus(id, status) ==
    {IF o.id = id THEN [o EXCEPT !.status = status] ELSE o : o \in orders}

\* handleStatusUpdate of the kitchen page: the status is written, and after
\* a successful write fetchData runs
handleStatusUpdate(orderId, newStatus) ==
    /\ UNCHANGED <<calc, reservations, pc, req, sent, avail, tables,
                   settings, best, menu, phoneOrders, customer>>
    /\ Len(kitchenOrders.fetches) < MaxFetches
    /\ \/ UNCHANGED <<orders, kitchenOrders>>
       \/ /\ orders' = UpdateStatus(orderId, newStatus)
          /\ \E l \in {m \in StoreOrders(orders') :
                          \A i \in DOMAIN m, j \in DOMAIN m :
                              i < j => m[i].created_at <= m[j].created_at} :
                 kitchenOrders' = [kitchenOrders EXCEPT !.fetches = Append(@, l)]

\* the buttons of the order cards: a confirmed order can be started, a
\* preparing order can be marked ready, and a ready order can be marked
\* served from the dialog of its card
OrderActions ==
    \E i \in DOMAIN Queue :
        \/ Queue[i].status = "confirmed" /\ handleStatusUpdate(Queue[i].id, "preparing")
        \/ Queue[i].status = "preparing" /\ handleStatusUpdate(Queue[i].id, "ready")
        \/ Queue[i].status = "ready" /\ handleStatusUpdate(Queue[i].id, "served")

\* PATCH /api/orders/:id: updateData holds the fields the body defines; the
\* update of a missing row changes nothing, and the store rejects a column
\* the row does not have
PatchOrder(id, body) ==
    /\ UNCHANGED <<calc, reservations, pc, req, sent, avail, tables,
                   settings, best, clientVars>>
    /\ \/ UNCHANGED orders
       \/ /\ \A o \in orders : o.id = id => body.defined \subseteq DOMAIN o
          /\ orders' =
                 {IF o.id = id
                  THEN [f \in DOMAIN o |-> IF f \in body.defined THEN body[f] ELSE o[f]]
                  ELSE o : o \in orders}

\* the body { status } of an order update
OrderStatusBody(st) == [defined |-> {"status"}, status |-> st]

\* the bodies of an order update: a status, a quantity or a price
OrderPatchBodies ==
    {OrderStatusBody(st) : st \in OrderStatuses}
        \cup {[defined |-> {"quantity"}, quantity |-> 3],
              [defined |-> {"price"}, price |-> 100]}

\* an order of the first menu item for the reservation of table T1
KitchenRow(id, status, created) ==
    [id |-> id, reservation_id |-> 1, table_id |-> "T1", status |-> status,
     total_amount |-> 850,
     items |-> <<[menu_item_id |-> "M1", quantity |-> 1, notes |-> "", price |-> 850]>>,
     created_at |-> created]

\* a store that holds the reservations of the day and the given orders
KitchenInit(stored) ==
    /\ calc = NoCalc
    /\ pc = [p \in Procs |-> "idle"]
    /\ req = [p \in Procs |-> NoReq]
    /\ sent = [p \in Procs |-> NoSent]
    /\ avail = NoAvail
    /\ tables = Tables
    /\ reservations = PhoneRows
    /\ settings = DefaultSettings
    /\ best = NoBest
    /\ ClientInit
    /\ orders \in stored

\* stores with one order, in any status
OneOrder == {{KitchenRow(1, st, 1)} : st \in OrderStatuses}

\* stores with two orders in any status, created together or one after the
\* other
TwoOrders ==
    {{KitchenRow(1, s1, 1), KitchenRow(2, s2, c)} :
        s1 \in OrderStatuses, s2 \in OrderStatuses, c \in {1, 2}}

\* stores with an order in any status and a phone order created with it
WithPhoneOrder ==
    {{KitchenRow(1, st, 1), KitchenRow(2, "pending", 1)} : st \in OrderStatuses}

\* order update requests next to the kitchen page
OrderNext ==
    \/ \E id \in 1..MaxOrders, body \in OrderPatchBodies : PatchOrder(id, body)
    \/ OrderActions
    \/ fetchData
    \/ \E i \in 1..MaxFetches : FetchDone(i)
    \/ \E i \in 1..MaxFetches : FetchFailed(i)

OrderSpec == KitchenInit(OneOrder) /\ [][OrderNext]_vars

\* the kitchen page loads a store that does not change
QueueNext ==
    \/ fetchData
    \/ \E i \in 1..MaxFetches : FetchDone(i)
    \/ \E f \in StatusFilters : setStatusFilter(f)

QueueSpec == KitchenInit(OneOrder \cup TwoOrders) /\ [][QueueNext]_vars

\* the kitchen page with its buttons, next to a client that cancels orders
KitchenNext ==
    \/ OrderActions
    \/ \E id \in 1..MaxOrders : PatchOrder(id, OrderStatusBody("cancelled"))
    \/ fetchData
    \/ \E i \in 1..MaxFetches : FetchDone(i)
    \/ \E i \in 1..MaxFetches : FetchFailed(i)

\* the timer starts a fetch every five seconds, every fetch gets its answer,
\* and a fetch that is repeated does not fail for ever
KitchenFairSpec ==
    /\ KitchenInit(OneOrder \cup WithPhoneOrder)
    /\ [][KitchenNext]_vars
    /\ WF_vars(fetchData)
    /\ \A i \in 1..MaxFetches : WF_vars(FetchDone(i) \/ FetchFailed(i))
    /\ \A i \in 1..MaxFetches : SF_vars(FetchDone(i))

\* the phone-order page writes orders and the kitchen page works on them; the
\* store may hold a confirmed order already
IntakeNext ==
    \/ PhoneOpen
    \/ \E t \in Tables : handleTableSelect(t)
    \/ \E m \in phoneOrders.menuItems : m.id = "M1" /\ handleAddMenuItem(m)
    \/ handleConfirmOrder
    \/ ConfirmOrderDone
    \/ fetchData
    \/ \E i \in 1..MaxFetches : FetchDone(i)
    \/ OrderActions

\* the kitchen page keeps loading the orders, and the staff presses a button
\* that the page keeps offering
IntakeFairSpec ==
    /\ KitchenInit({{}, {KitchenRow(1, "confirmed", 1)}})
    /\ [][IntakeNext]_vars
    /\ WF_vars(fetchData)
    /\ \A i \in 1..MaxFetches : SF_vars(FetchDone(i))
    /\ SF_vars(OrderActions)

\* one booking request is read and decided, and an availability query runs
\* against the same store before the insert
AgreeNext ==
    \/ pc[1] = "idle" /\ \E r \in AvailRequests : PostRead(1, r)
    \/ /\ pc[1] # "idle"
       /\ avail = NoAvail
       /\ \/ \E t \in QueryTimes : GetAvailable(ReqDate, t)
          \/ GetAvailable(ReqDate, NoTime)

AgreeSpec == AvailInit /\ [][AgreeNext]_vars

----------------------------------------------------------------------------
(* The booking form of the customer page *)

\* the availability checks of the booking form the model follows at one time
MaxChecks == 2

\* no check has set the table of the form
NoCheck == [op |-> "none"]

\* checkAvailability up to its selects, started by the effect on the date,
\* the time and the party size: the check keeps the values it was started with
StartCheck(form) ==
    IF form.guests = 0 \/ Len(form.selectedTime) = 0 THEN {form}
    ELSE {[form EXCEPT !.checks = Append(@,
              [op |-> "checked", time |-> form.selectedTime, guests |-> form.guests,
               table_id |-> BestTable(allTables, ReqDate, form.selectedTime, form.guests)])]
          : allTables \in StoreOrders(tables)}

handleGuestsChange(guests) ==
    /\ UNCHANGED <<calc, reservations, pc, req, sent, avail, tables, orders,
                   settings, best, menu, phoneOrders, kitchenOrders>>
    /\ guests # customer.guests
    /\ Len(customer.checks) < MaxChecks
    /\ customer' \in StartCheck([customer EXCEPT !.guests = guests])

handleTimeChange(time) ==
    /\ UNCHANGED <<calc, reservations, pc, req, sent, avail, tables, orders,
                   settings, best, menu, phoneOrders, kitchenOrders>>
    /\ time # customer.selectedTime
    /\ Len(customer.checks) < MaxChecks
    /\ customer' \in StartCheck([customer EXCEPT !.selectedTime = time])

\* checkAvailability from the answers of its selects: the form gets the best
\* table of the check, or none
CheckDone(i) ==
    /\ UNCHANGED <<calc, reservations, pc, req, sent, avail, tables, orders,
                   settings, best, menu, phoneOrders, kitchenOrders>>
    /\ i \in DOMAIN customer.checks
    /\ customer' = [customer EXCEPT
           !.table_id = customer.checks[i].table_id,
           !.checked = customer.checks[i],
           !.checks = RemoveAt(@, i)]

\* checkAvailability from an error of a select: the form stays as it is
CheckFailed(i) ==
    /\ UNCHANGED <<calc, reservations, pc, req, sent, avail, tables, orders,
                   settings, best, menu, phoneOrders, kitchenOrders>>
    /\ i \in DOMAIN customer.checks
    /\ customer' = [customer EXCEPT !.checks = RemoveAt(@, i)]

\* handleSubmit of the customer page: nothing without a table; the row is
\* inserted with the table of the form and the selected time and party size;
\* after the insert the form is reset
handleSubmit ==
    /\ UNCHANGED <<calc, pc, req, sent, avail, tables, orders,
                   settings, best, menu, phoneOrders, kitchenOrders>>
    /\ customer.table_id # ""
    /\ Cardinality(reservations) < MaxRes
    /\ \/ UNCHANGED <<reservations, customer>>
       \/ /\ RowAccepted(customer.table_id, customer.guests, ReqDate,
                         customer.selectedTime, "confirmed")
          /\ reservations' = reservations \cup
                 {NewRow(FreshId, customer.table_id, customer.guests, ReqDate,
                         customer.selectedTime, DEFAULT_DURATION_HOURS,
                         DEFAULT_BUFFER_MINUTES, "confirmed")}
          /\ customer' = [customer EXCEPT
                 !.table_id = "", !.guests = 0, !.selectedTime = Clock(19, 0),
                 !.checked = NoCheck]

\* the customer page next to a store that may hold a reservation
CustomerNext ==
    \/ \E g \in {2, 8} : handleGuestsChange(g)
    \/ \E t \in {T1900, T2115} : handleTimeChange(t)
    \/ \E i \in 1..MaxChecks : CheckDone(i)
    \/ \E i \in 1..MaxChecks : CheckFailed(i)
    \/ handleSubmit

\* the store is empty or holds a reservation of table T1 at 21:15
CustomerInit ==
    /\ calc = NoCalc
    /\ pc = [p \in Procs |-> "idle"]
    /\ req = [p \in Procs |-> NoReq]
    /\ sent = [p \in Procs |-> NoSent]
    /\ avail = NoAvail
    /\ tables = Tables
    /\ orders = {}
    /\ settings = DefaultSettings
    /\ best = NoBest
    /\ ClientInit
    /\ reservations \in
           {{}, {NewRow(1, "T1", 2, ReqDate, T2115, DEFAULT_DURATION_HOURS,
                        DEFAULT_BUFFER_MINUTES, "confirmed")}}

CustomerSpec == CustomerInit /\ [][CustomerNext]_vars

----------------------------------------------------------------------------
(* Reference arithmetic on times of day, in minutes since midnight *)

IsDigit(c) == c \in {"0", "1", "2", "3", "4", "5", "6", "7", "8", "9"}

\* s is a zero-padded HH:MM string
IsHHMM(s) ==
    /\ Len(s) = 5
    /\ IsDigit(s[1]) /\ IsDigit(s[2]) /\ s[3] = ":" /\ IsDigit(s[4]) /\ IsDigit(s[5])
    /\ (CharCode(s[4]) - 48) * 10 + (CharCode(s[5]) - 48) < 60

MinutesOf(s) ==
    ((CharCode(s[1]) - 48) * 10 + (CharCode(s[2]) - 48)) * 60
        + (CharCode(s[4]) - 48) * 10 + (CharCode(s[5]) - 48)

DayMinutes == 24 * 60

----------------------------------------------------------------------------
(* Claims about the time helpers, checked under TimeSpec *)

\* C5: hasTimeOverlap on two busy windows is true exactly when startA < endB
\* and startB < endA as times of day, in both argument orders; windows that
\* share only an endpoint do not overlap.
C5_OverlapIsStrictIntervalTest ==
    calc.op = "overlap" =>
        LET startA == MinutesOf(calc.time) - calc.buffer
            endA   == MinutesOf(calc.time) + calc.duration * 60 + calc.buffer
            startB == MinutesOf(calc.time2) - calc.buffer2
            endB   == MinutesOf(calc.time2) + calc.duration2 * 60 + calc.buffer2
        IN  /\ calc.result <=> (startA < endB /\ startB < endA)
            /\ calc.swapped <=> (startB < endA /\ startA < endB)
            /\ (endA = startB \/ endB = startA) => (~calc.result /\ ~calc.swapped)

\* one window ends at 20:00, the other starts at 20:00, and they do not overlap
C5_Witness ==
    /\ calc.op = "overlap"
    /\ MinutesOf(calc.time) + calc.duration * 60 + calc.buffer = 20 * 60
    /\ MinutesOf(calc.time2) - calc.buffer2 = 20 * 60
    /\ calc.buffer > 0 /\ calc.buffer2 > 0
    /\ ~calc.result /\ ~calc.swapped

C9_AddMinutesAsStated ==
    calc.op = "addMinutes" =>
        LET total1 == MinutesOf(calc.time) + calc.minutes
            total2 == MinutesOf(calc.time2) + calc.minutes2
        IN  /\ IsHHMM(calc.result) /\ MinutesOf(calc.result) = total1
            /\ IsHHMM(calc.result2) /\ MinutesOf(calc.result2) = total2
            /\ StrLess(calc.result, calc.result2) <=> total1 < total2

\* C9 amended: the same, for the calls whose time + offset is not negative.
C9_AddMinutesNonNegative ==
    calc.op = "addMinutes" =>
        LET total1 == MinutesOf(calc.time) + calc.minutes
            total2 == MinutesOf(calc.time2) + calc.minutes2
        IN  /\ total1 >= 0 => (IsHHMM(calc.result) /\ MinutesOf(calc.result) = total1)
            /\ total2 >= 0 => (IsHHMM(calc.result2) /\ MinutesOf(calc.result2) = total2)
            /\ (total1 >= 0 /\ total2 >= 0) =>
                   (StrLess(calc.result, calc.result2) <=> total1 < total2)

\* a negative offset with a result inside the day, compared with a result
\* past 24:00
C9_Witness ==
    /\ calc.op = "addMinutes"
    /\ calc.minutes < 0
    /\ MinutesOf(calc.time) + calc.minutes >= 0
    /\ MinutesOf(calc.time2) + calc.minutes2 >= DayMinutes
    /\ MinutesOf(calc.result2) >= DayMinutes
    /\ StrLess(calc.result, calc.result2)

----------------------------------------------------------------------------
(* Busy windows as the data model defines them, in minutes since midnight *)

RowStart(r) == MinutesOf(r.time) - r.buffer_minutes
RowEnd(r) == MinutesOf(r.time) + r.duration_hours * 60 + r.buffer_minutes

\* the requested window: the configured duration and buffer around the time
ReqStart(time) == MinutesOf(time) - BUFFER_MINUTES
ReqEnd(time) == MinutesOf(time) + RESERVATION_DURATION_HOURS * 60 + BUFFER_MINUTES

IsOccupying(r) == r.status \in {"confirmed", "arrived", "in_progress"}

\* some occupying reservation of the table on the date overlaps the request
Blocked(table_id, date, time) ==
    \E r \in reservations :
        /\ r.table_id = table_id /\ r.date = date /\ IsOccupying(r)
        /\ ReqStart(time) < RowEnd(r) /\ RowStart(r) < ReqEnd(time)

----------------------------------------------------------------------------
(* Claims about the reservation operations *)

\* C1: in every state reached through create, update and delete, no two
\* distinct occupying reservations on the same table and date have
\* overlapping busy windows.
C1_NoOverlap ==
    \A r1 \in reservations, r2 \in reservations :
        (/\ r1.id # r2.id
         /\ r1.table_id = r2.table_id /\ r1.date = r2.date
         /\ IsOccupying(r1) /\ IsOccupying(r2)) =>
            ~(RowStart(r1) < RowEnd(r2) /\ RowStart(r2) < RowEnd(r1))

\* C2: of two concurrent createReservation calls for the same table and date
\* with overlapping busy windows, at most one succeeds.
C2_AtMostOneConcurrentBooking ==
    \A p \in Procs, q \in Procs :
        (/\ p # q
         /\ pc[p] = "created" /\ pc[q] = "created"
         /\ req[p].table_id = req[q].table_id /\ req[p].date = req[q].date) =>
            ~(/\ ReqStart(req[p].time) < ReqEnd(req[q].time)
              /\ ReqStart(req[q].time) < ReqEnd(req[p].time))

\* C3: createReservation run alone is rejected with a conflict, inserting
\* nothing and notifying nobody, exactly when an occupying reservation of the
\* table on the date overlaps the requested busy window.
C3_ConflictIffOverlap ==
    /\ pc[1] = "conflict" =>
          /\ Blocked(req[1].table_id, req[1].date, req[1].time)
          /\ sent[1] = NoSent
          /\ Cardinality(reservations) <= 1
    /\ pc[1] = "insert" => ~Blocked(req[1].table_id, req[1].date, req[1].time)

ScenarioA ==
    reservations = {NewRow(1, "T1", 2, ReqDate, T1900, 2, 15, "confirmed")}

C6_OnlyOccupyingStatusesBlock ==
    /\ avail.op = "available" =>
          \A t \in Tables :
              /\ t \notin avail.tables =>
                    \E r \in reservations :
                        r.table_id = t /\ r.date = avail.date /\ IsOccupying(r)
              /\ (\E r \in reservations :
                      /\ r.table_id = t /\ r.date = avail.date /\ IsOccupying(r)
                      /\ MinutesOf(r.time) = MinutesOf(avail.time)) =>
                    t \notin avail.tables
    /\ pc[1] = "conflict" =>
          \E r \in reservations :
              r.table_id = req[1].table_id /\ r.date = req[1].date /\ IsOccupying(r)

\* a pending reservation sits at the very time asked for, and the table is free
C6_Witness ==
    /\ avail.op = "available"
    /\ \E r \in reservations :
           /\ r.table_id = "T1" /\ r.date = avail.date /\ r.status = "pending"
           /\ MinutesOf(r.time) = MinutesOf(avail.time)
    /\ "T1" \in avail.tables

\* C7: the availability check uses each occupying reservation's own stored
\* duration and buffer, a buffer of 0 included: a table is reported available
\* exactly when no occupying reservation's window
\* [time - buffer, time + duration*60 + buffer) overlaps the requested one.
C7_OwnDurationAndBuffer ==
    avail.op = "available" =>
        \A t \in Tables :
            t \in avail.tables <=> ~Blocked(t, avail.date, avail.time)

\* C10: no reservation is stored for a table with fewer seats than the party.
C10_PartyFitsTable ==
    \A r \in reservations : r.guests <= Seats(r.table_id)

\* C11: createReservation answers a request whose table, customer name, date
\* or time is missing, or whose party size is not greater than 0 (zero,
\* negative or absent), with the validation error, before any read or write
\* of the store.
C11_InvalidInputFailsValidation ==
    \A p \in Procs :
        (/\ pc[p] # "idle"
         /\ \/ req[p].table_id = ""
            \/ req[p].customer_name = ""
            \/ req[p].date = ""
            \/ Len(req[p].time) = 0
            \/ req[p].guests <= 0) =>
            pc[p] = "missing"

\* the responses of createReservation that report a failure
ErrorResponses == {"missing", "conflict", "error"}

\* the stored row of the request of process p
CreatedRow(p) ==
    {r \in reservations :
        /\ r.table_id = req[p].table_id /\ r.date = req[p].date
        /\ r.time = DbTime(req[p].time) /\ r.guests = req[p].guests
        /\ r.status = "confirmed"}

C13_SendersNeverUndoBooking ==
    \A p \in Procs :
        /\ pc[p] = "created" => CreatedRow(p) # {}
        /\ (sent[p].sms = "failed" \/ sent[p].email = "failed") =>
               (pc[p] = "created" /\ CreatedRow(p) # {})

\* the SMS sender failed and the booking stands
C13_Witness ==
    /\ pc[1] = "created"
    /\ sent[1].sms = "failed"
    /\ CreatedRow(1) # {}

\* C14: a sender runs only for a request whose row has been written, and
\* only on the channel the request gives a contact for; a request that was
\* rejected or whose write failed has nothing sent.
C14_NotifyOnlyAfterWrite ==
    \A p \in Procs :
        /\ sent[p].sms # "none" =>
               (pc[p] = "created" /\ req[p].customer_phone # "" /\ CreatedRow(p) # {})
        /\ sent[p].email # "none" =>
               (pc[p] = "created" /\ req[p].customer_email # "" /\ CreatedRow(p) # {})
        /\ pc[p] \in ErrorResponses \cup {"insert"} => sent[p] = NoSent

\* an email went out for a booking without a phone number
C14_Witness ==
    /\ pc[1] = "created"
    /\ req[1].customer_phone = "" /\ req[1].customer_email # ""
    /\ sent[1].sms = "none" /\ sent[1].email = "sent"

\* the store after the status of row r alone has been set to st
WithStatus(r, st) == (reservations \ {r}) \cup {[r EXCEPT !.status = st]}

C16_ReferentialIntegrity ==
    /\ \A o \in orders : \E r \in reservations : r.id = o.reservation_id
    /\ \A r \in reservations : r.table_id \in tables

\* table T1 is gone, the first reservation is gone, and the second
\* reservation, on T2, still has its order
C16_Witness ==
    /\ tables = {"T2"}
    /\ Cardinality(reservations) = 1
    /\ \E r \in reservations, o \in orders :
           r.id = 2 /\ r.table_id = "T2" /\ o.reservation_id = r.id

\* the order of the table names
NameRank(t) == CASE t = "T1" -> 1 [] t = "T2" -> 2 [] t = "T3" -> 3

\* the tables that fit the party and that no occupying reservation blocks
FittingTables(date, time, guests) ==
    {t \in tables : ~Blocked(t, date, time) /\ Seats(t) >= guests}

\* C17: the table the page chooses is available, seats the party, and no
\* other available table that seats the party is smaller; when no available
\* table fits the party, no table is chosen.
C17_BestTableIsSmallestFit ==
    best.op = "checked" =>
        LET fit == FittingTables(best.date, best.time, best.guests)
        IN  IF fit = {}
            THEN best.table_id = ""
            ELSE /\ best.table_id \in fit
                 /\ \A t \in fit : Seats(best.table_id) <= Seats(t)

\* C18: among the available tables that share the smallest sufficient number
\* of seats, the chosen one is the first by name, whatever order the store
\* returned the tables in.
C18_TieBrokenByName ==
    (best.op = "checked" /\ best.table_id # "") =>
        \A t \in best.availableTables :
            Seats(t) = Seats(best.table_id) =>
                NameRank(best.table_id) <= NameRank(t)

C20_SettingsDriveBooking ==
    [][\A p \in Procs :
          (pc[p] = "insert" /\ pc'[p] = "created") =>
              \E r \in reservations' \ reservations :
                  /\ r.duration_hours = StrToNum(settings.default_reservation_duration)
                  /\ r.buffer_minutes = StrToNum(settings.default_buffer_minutes)]_vars


\* C29: in the draft of the phone-order page every menu item has at most one
\* line and every line has a quantity of at least 1, and a step that changes
\* the notes of a line changes no quantity.
C29_DraftLinesUniqueAndPositive ==
    /\ [](LET draft == phoneOrders.orderItems
          IN  /\ \A i \in DOMAIN draft, j \in DOMAIN draft :
                     i # j => draft[i].menu_item.id # draft[j].menu_item.id
              /\ \A i \in DOMAIN draft : draft[i].quantity >= 1)
    /\ [][LET draft == phoneOrders.orderItems
              after == phoneOrders'.orderItems
          IN  (/\ Len(after) = Len(draft)
               /\ \E i \in DOMAIN draft : after[i].notes # draft[i].notes) =>
                  \A i \in DOMAIN draft :
                      /\ after[i].quantity = draft[i].quantity
                      /\ after[i].menu_item = draft[i].menu_item]_vars

\* an item was added twice and another once, and a line carries a note
C29_Witness ==
    /\ Len(phoneOrders.orderItems) = 2
    /\ phoneOrders.orderItems[1].quantity = 2
    /\ phoneOrders.orderItems[2].quantity = 1
    /\ phoneOrders.orderItems[1].notes # ""


\* C30: the phone-order page sends an order only when a table is selected,
\* the page holds a reservation of that table and the draft has a line; an
\* order it writes references that table and that reservation, which the
\* store holds as a reservation of the same table; a successful write leaves
\* the draft empty and a failed one leaves the draft as it was.
C30_PhoneOrderWrittenForReservedTable ==
    [][/\ (phoneOrders.insert = NoInsert /\ phoneOrders'.insert # NoInsert) =>
              /\ phoneOrders.selectedTable # ""
              /\ phoneOrders.currentReservation # NoReservation
              /\ phoneOrders.currentReservation.table_id = phoneOrders.selectedTable
              /\ Len(phoneOrders.orderItems) > 0
              /\ phoneOrders'.insert.table_id = phoneOrders.selectedTable
              /\ phoneOrders'.insert.reservation_id = phoneOrders.currentReservation.id
       /\ \A o \in orders' \ orders :
              /\ phoneOrders.insert # NoInsert
              /\ o.table_id = phoneOrders.insert.table_id
              /\ o.reservation_id = phoneOrders.insert.reservation_id
              /\ Len(o.items) > 0
              /\ \E r \in reservations :
                     r.id = o.reservation_id /\ r.table_id = o.table_id
              /\ phoneOrders'.orderItems = <<>>
       /\ (/\ phoneOrders.insert # NoInsert
           /\ phoneOrders'.insert = NoInsert
           /\ orders' = orders) =>
              phoneOrders'.orderItems = phoneOrders.orderItems]_vars

\* an order of table T2 is stored, the draft is empty and the table is still
\* selected
C30_Witness ==
    /\ \E o \in orders : o.table_id = "T2" /\ o.status = "pending"
    /\ phoneOrders.selectedTable = "T2"
    /\ phoneOrders.orderItems = <<>>
    /\ phoneOrders.insert = NoInsert


\* the sum of price times quantity over the lines of a stored order
RECURSIVE LinesTotal(_)
LinesTotal(items) ==
    IF Len(items) = 0 THEN 0
    ELSE Head(items).price * Head(items).quantity + LinesTotal(Tail(items))

\* C23: an order that is confirmed carries, on every line, the price the menu
\* has for the item at that moment; a later update or delete of a menu item
\* changes no stored order; and the total of a stored order is the sum of
\* price times quantity over its lines.
C23_PriceSnapshot ==
    [][/\ (phoneOrders.insert = NoInsert /\ phoneOrders'.insert # NoInsert) =>
              \A i \in DOMAIN phoneOrders'.insert.items :
                  \E m \in menu :
                      /\ m.id = phoneOrders'.insert.items[i].menu_item_id
                      /\ m.price = phoneOrders'.insert.items[i].price
       /\ menu' # menu => orders' = orders
       /\ \A o \in orders' : o.total_amount = LinesTotal(o.items)]_vars


\* the status changes of an order: one step along pending, confirmed,
\* preparing, ready, served, or to cancelled from a status before served
AllowedTransitions ==
    {<<"pending", "confirmed">>, <<"confirmed", "preparing">>,
     <<"preparing", "ready">>, <<"ready", "served">>}
        \cup {<<st, "cancelled">> : st \in {"pending", "confirmed", "preparing", "ready"}}

\* C21: every step that changes the status of an order takes it one step
\* along pending, confirmed, preparing, ready, served, or to cancelled from a
\* status before served.
C21_StatusFollowsChain ==
    [][\A o \in orders, n \in orders' :
          (n.id = o.id /\ n.status # o.status) =>
              <<o.status, n.status>> \in AllowedTransitions]_vars

\* C22: a step leaves an order that is served as it is: its status, its
\* lines and its total.
C22_ServedIsFinal ==
    [][\A o \in orders : o.status = "served" => o \in orders']_vars


\* C25: under the filter all, the queue of either kitchen page holds the
\* loaded orders that are neither served nor cancelled, each once; preparing
\* orders come before all others; and within the preparing orders and within
\* the others the order that was created first comes first.
C25_QueueOldestFirst ==
    kitchenOrders.statusFilter = "all" =>
        \A q \in {Queue, QueueByPriority} :
            /\ Range(q) = {o \in Range(kitchenOrders.orders) :
                              o.status \notin {"served", "cancelled"}}
            /\ \A i \in DOMAIN q, j \in DOMAIN q :
                   i < j =>
                       /\ q[i] # q[j]
                       /\ q[j].status = "preparing" => q[i].status = "preparing"
                       /\ (q[i].status = "preparing" <=> q[j].status = "preparing") =>
                              q[i].created_at <= q[j].created_at


\* the kitchen page shows the orders of the store, each as it is stored
KitchenShowsStore ==
    /\ Range(kitchenOrders.orders) = orders
    /\ Len(kitchenOrders.orders) = Cardinality(orders)

\* C26: whatever the staff and other clients changed and in whatever order
\* the answers of overlapping fetches arrived, from some moment on the
\* kitchen page shows the orders as the store holds them.
C26_KitchenViewConverges == <>[]KitchenShowsStore

\* the page shows the order as the store holds it, preparing, while the
\* answer of an earlier fetch that read it as confirmed is still to come
C26_Witness ==
    /\ KitchenShowsStore
    /\ \E o \in orders : o.status = "preparing"
    /\ \E i \in DOMAIN kitchenOrders.fetches :
           \E o \in Range(kitchenOrders.fetches[i]) : o.status = "confirmed"


\* C24: an order that the phone-order page has written, with the status it
\* writes, is eventually served, when the kitchen page keeps loading and the
\* staff keeps pressing the buttons the page offers.
C24_PhoneOrderEventuallyServed ==
    \A id \in 1..MaxOrders :
        (\E o \in orders : o.id = id /\ o.status = "pending") ~>
            (\E o \in orders : o.id = id /\ o.status = "served")


\* C27: when the booking endpoint has decided a request for a table of the
\* store and the availability endpoint has answered for the same date and
\* time against the same rows, the table is in the answer exactly when the
\* request was not rejected for a conflict.
C27_QueryAgreesWithBooking ==
    (/\ pc[1] \in {"conflict", "insert"}
     /\ avail.op = "available"
     /\ avail.date = req[1].date
     /\ avail.time = req[1].time
     /\ req[1].table_id \in tables) =>
        (req[1].table_id \in avail.tables <=> pc[1] = "insert")

\* a request for table T1 was rejected for a conflict, and the query for its
\* date and time lists table T2 only
C27_Witness ==
    /\ pc[1] = "conflict"
    /\ req[1].table_id = "T1"
    /\ avail.op = "available"
    /\ avail.date = req[1].date
    /\ avail.time = req[1].time
    /\ avail.tables = {"T2"}


\* C28: a reservation that handleSubmit inserts has the table that a check
\* for exactly its time and party size put on the form.
C28_InsertedTableWasChecked ==
    [][\A r \in reservations' \ reservations :
          /\ customer.checked # NoCheck
          /\ customer.checked.table_id = r.table_id
          /\ DbTime(customer.checked.time) = r.time
          /\ customer.checked.guests = r.guests]_vars

====
